---- MODULE Spec2Model ----
(***************************************************************************)
(* Model of the Genie configuration backup pipeline                        *)
(* (backup_genie_config.py) and of the configuration handling shared with  *)
(* verify_genie_fetch.py and setup_and_backup_genie.py.                    *)
(*                                                                         *)
(* Text is modelled as a sequence of atoms: an atom is a piece of text     *)
(* that contains none of the separators the code looks for ("https://",    *)
(* "git@", ":", "@", "/"), or is one such separator.  Python's `x in s`,   *)
(* s.split(x)[-1] and s.replace(x, y) are computed on these sequences.     *)
(*                                                                         *)
(* A JSON object document is the sequence of its <<key, value>> members    *)
(* in textual order.  A parsed object is a Python dict: the sequence of    *)
(* its items in insertion order, keys unique.                              *)
(***************************************************************************)
EXTENDS Integers, Sequences, FiniteSets, TLC

VARIABLES
    pc,               \* position of main() in the current run
    runs,             \* number of runs started in this working copy
    exitStatus,       \* -1 while running / before any run, else process status
    config_str,       \* raw_response.get("serialized_space") of this run
    current_config,   \* parsed configuration of this run
    warned,           \* "Warning: No serialized_space ..." printed in this run
    git_token,        \* secret held by this run ("" before retrieval)
    original_remote,  \* stdout of git config --get remote.origin.url
    workFile,         \* snapshot file in the working tree (<<>> = absent)
    indexFile,        \* snapshot file in the git index
    headFile,         \* snapshot file in the local HEAD commit
    remoteFile,       \* snapshot file on origin/main
    ahead,            \* local main has commits origin/main lacks
    behind,           \* origin/main has commits local main lacks
    gitConfig,        \* .git/config: user.email, user.name, remote.origin.url
    statusOut,        \* stdout of git status --porcelain in this run
    commitMsg,        \* message of the commit created in this run (<<>> = none)
    steps,            \* pipeline steps executed in this run, in order
    failedStep,       \* the first step whose call failed in this run ("" = none)
    logged,           \* command text of the last "Running: ..." line
    raised,           \* command text in the raised "Git command failed" message
    errPrinted,       \* text of the last "Error: {stderr}" line
    prevExit,         \* exit status of the previous run (-1 = none)
    prevConfigStr,    \* serialized_space fetched by the previous run
    extSinceEnd,      \* others pushed to origin/main since the last run ended
    extSincePrev,     \* others pushed between the previous run and this one
    respA, respB,     \* two 'get space' responses given to the snapshot writer
    outA, outB,       \* what the writer produced for them
    phase             \* which script's writer ran ("in" = none yet)

vars == <<pc, runs, exitStatus, config_str, current_config, warned, git_token,
          original_remote, workFile, indexFile, headFile, remoteFile, ahead,
          behind, gitConfig, statusOut, commitMsg, steps, failedStep, logged,
          raised, errPrinted, prevExit, prevConfigStr, extSinceEnd, extSincePrev,
          respA, respB, outA, outB, phase>>

runVars == <<pc, runs, exitStatus, config_str, current_config, warned, git_token,
          original_remote, workFile, indexFile, headFile, remoteFile, ahead,
          behind, gitConfig, statusOut, commitMsg, steps, failedStep, logged,
          raised, errPrinted, prevExit, prevConfigStr, extSinceEnd, extSincePrev>>

serVars == <<respA, respB, outA, outB, phase>>

-----------------------------------------------------------------------------
(* Bounds *)

MaxRuns == 3
MaxDocLen == 2

-----------------------------------------------------------------------------
(* Command-line arguments and secret store *)

SPACE_ID == "01f10e9a24f61b178118bb9b90e1b2a9"
GIT_USERNAME == "genie-backup-bot"
GIT_EMAIL == "bot@company.com"
SECRET_VALUE == "dummy-pat-for-testing"
MASK == "***"

-----------------------------------------------------------------------------
(* Text helpers *)

Contains(s, x) == \E i \in 1..Len(s) : s[i] = x

\* s.split(x)[-1]: the text after the last occurrence of x (all of s if none)
SplitLast(s, x) ==
    IF Contains(s, x)
    THEN LET i == CHOOSE j \in 1..Len(s) :
                     s[j] = x /\ \A k \in (j+1)..Len(s) : s[k] # x
         IN SubSeq(s, i + 1, Len(s))
    ELSE s

\* s.replace(x, y)
Replace(s, x, y) == [i \in 1..Len(s) |-> IF s[i] = x THEN y ELSE s[i]]

-----------------------------------------------------------------------------
(* JSON: json.loads and json.dump(indent=2, sort_keys=True) *)

KeySeq == <<"a", "b", "c">>      \* object keys in ascending string order
Keys == {"a", "b"}
Vals == {1, 2}
Indent == 2

KeyRank(k) == CHOOSE i \in 1..Len(KeySeq) : KeySeq[i] = k

Members == Keys \X Vals

RECURSIVE SeqsUpTo(_, _)
SeqsUpTo(S, n) ==
    IF n = 0 THEN {<<>>}
    ELSE LET shorter == SeqsUpTo(S, n - 1)
         IN shorter \cup {Append(s, x) : s \in {t \in shorter : Len(t) = n - 1}, x \in S}

Docs == SeqsUpTo(Members, MaxDocLen)

\* dict item assignment d[k] = v: an existing key keeps its position
RECURSIVE DictSet(_, _, _)
DictSet(d, k, v) ==
    IF d = <<>> THEN <<<<k, v>>>>
    ELSE IF Head(d)[1] = k THEN <<<<k, v>>>> \o Tail(d)
    ELSE <<Head(d)>> \o DictSet(Tail(d), k, v)

RECURSIVE LoadsFrom(_, _)
LoadsFrom(d, doc) ==
    IF doc = <<>> THEN d
    ELSE LoadsFrom(DictSet(d, Head(doc)[1], Head(doc)[2]), Tail(doc))

\* json.loads of an object document
Loads(doc) == LoadsFrom(<<>>, doc)

\* Python dict equality: same items, order ignored
DictEq(d, e) == {d[i] : i \in 1..Len(d)} = {e[i] : i \in 1..Len(e)}

RECURSIVE InsertSorted(_, _)
InsertSorted(s, m) ==
    IF s = <<>> THEN <<m>>
    ELSE IF KeyRank(m[1]) < KeyRank(Head(s)[1]) THEN <<m>> \o s
    ELSE <<Head(s)>> \o InsertSorted(Tail(s), m)

RECURSIVE SortItems(_)
SortItems(d) ==
    IF d = <<>> THEN <<>> ELSE InsertSorted(SortItems(Tail(d)), Head(d))

\* the lines json.dump writes for the items in the given order:
\* <<indentation, key or brace, value, separator>>
Render(items) ==
    IF items = <<>> THEN << <<0, "{}", 0, "">> >>
    ELSE << <<0, "{", 0, "">> >>
         \o [i \in 1..Len(items) |->
                <<Indent, items[i][1], items[i][2],
                  IF i < Len(items) THEN "," ELSE "">>]
         \o << <<0, "}", 0, "">> >>

DumpUnsorted(d) == Render(d)

\* json.dump(d, f, indent=2, sort_keys=True)
Dump(d) == Render(SortItems(d))

-----------------------------------------------------------------------------
(* The 'get space' response and its serialized_space field *)

Missing == [kind |-> "missing", doc |-> <<>>]     \* no serialized_space key
EmptyStr == [kind |-> "empty", doc |-> <<>>]      \* serialized_space == ""
Invalid == [kind |-> "invalid", doc |-> <<>>]     \* text json.loads rejects
Json(doc) == [kind |-> "json", doc |-> doc]
NotFetched == [kind |-> "unfetched", doc |-> <<>>] \* no response received yet

DocA == << <<"a", 1>>, <<"b", 1>> >>
DocA2 == << <<"b", 1>>, <<"a", 1>> >>             \* DocA with its keys reordered
DocB == << <<"a", 2>> >>
PipelineDocs == {DocA, DocA2, DocB}

Responses == {Missing, EmptyStr, Invalid} \cup {Json(d) : d \in PipelineDocs}
WriterInputs == {Missing, EmptyStr} \cup {Json(d) : d \in Docs}

\* `not current_config_str`: None and "" are both falsy
NoConfigNoneOnly(cs) == cs.kind = "missing"
NoConfig(cs) == cs.kind \in {"missing", "empty"}

\* json.loads raises on malformed text
ParseRaises(cs) == ~NoConfig(cs) /\ cs.kind \in {"invalid", "empty"}

\* backup_genie_config.py: current_config
ParsedConfig(cs) == IF NoConfig(cs) THEN <<>> ELSE Loads(cs.doc)

\* verify_genie_fetch.py: config
VerifyConfig(cs) == IF cs.kind \in {"missing", "empty"} THEN <<>> ELSE Loads(cs.doc)

\* setup_and_backup_genie.py: backup_config
BackupConfig(cs) == IF cs.kind \in {"missing", "empty"} THEN <<>> ELSE Loads(cs.doc)

\* os.path.join(config_dir, f"space_{SPACE_ID}.json") relative to the repo root
SnapshotPath(id) == <<"genie_configs", "/", "space_", id, ".json">>

SnapshotContents == {Dump(ParsedConfig(r)) : r \in {x \in Responses : ~ParseRaises(x)}}

-----------------------------------------------------------------------------
(* Remote URL rewriting *)

HttpsOrigin == <<"https://", "github.com", "/", "ryancicak", "/", "genie_automation.git">>
SshOrigin == <<"git@", "github.com", ":", "ryancicak", "/", "genie_automation.git">>
PathOrigin == <<"/", "srv", "/", "genie_automation.git">>
NoOrigin == <<>>
Origins == {HttpsOrigin, SshOrigin, PathOrigin, NoOrigin}

RepoPart(remote) ==
    IF Contains(remote, "https://") THEN SplitLast(remote, "https://")
    ELSE IF Contains(remote, "git@") THEN Replace(SplitLast(remote, "git@"), ":", "/")
    ELSE remote

AuthenticatedRemote(user, token, repo_part) ==
    <<"https://", user, ":", token, "@">> \o repo_part

SafeRemoteLog(user, repo_part) ==
    <<"https://", user, ":", MASK, "@">> \o repo_part

-----------------------------------------------------------------------------
(* Git commands issued by main() *)

CmdConfigEmail == <<"git config user.email '", GIT_EMAIL, "'">>
CmdConfigName == <<"git config user.name '", GIT_USERNAME, "'">>
CmdSetUrl(remote) == <<"git remote set-url origin ">> \o remote
CmdPull == <<"git pull origin main">>
CmdStatus == <<"git status --porcelain">>
CmdAdd == <<"git add .">>
CmdCommit == <<"git commit -m 'Backup: Automated Genie config update for Space ", SPACE_ID, "'">>
CmdPush == <<"git push origin main">>
CommitMessage == <<"Backup: Automated Genie config update for Space ", SPACE_ID>>

None == <<>>                     \* safe_cmd=None
ReturnCodes == {0, 1}

\* f"{safe_cmd or cmd}"
Shown(cmd, safe_cmd) == IF safe_cmd = None THEN cmd ELSE safe_cmd

\* result.returncode != 0
FailedNever(rc) == FALSE
Failed(rc) == rc # 0

\* status.stdout.strip() is non-empty
HasChangesAlways(out) == TRUE
HasChanges(out) == out # <<>>

\* what git may write to stderr when a command that talks to origin fails
StderrTexts(url) == { <<"fatal: command failed">>,
                      <<"fatal: unable to access '">> \o url \o <<"'">> }
LocalStderr == { <<"fatal: command failed">> }

\* git status --porcelain for the snapshot path
StatusPorcelain(head, index, work) ==
    IF index = head /\ work = index THEN <<>>
    ELSE IF head = <<>> /\ index = <<>> THEN << <<"??">> \o SnapshotPath(SPACE_ID) >>
    ELSE << << (IF index = head THEN " " ELSE IF head = <<>> THEN "A" ELSE "M"),
               (IF work = index THEN " " ELSE "M") >> \o SnapshotPath(SPACE_ID) >>

Dirty(head, index, work) == index # head \/ work # index

\* git pull origin main cannot succeed: it would overwrite local changes to
\* the snapshot, or both sides committed different snapshots (a conflict).
\* Any git command may also fail for reasons outside the model (ReturnCodes).
PullMustFail(head, index, work, remote, isAhead, isBehind) ==
    /\ isBehind
    /\ remote # head
    /\ (isAhead \/ Dirty(head, index, work))

\* git pull fetched commits that change the snapshot and fast-forwarded to them
PullUpdates(head, remote, isAhead, isBehind) ==
    isBehind /\ ~isAhead /\ remote # head

-----------------------------------------------------------------------------
(* Initial state: a clone of the repository with no snapshot yet *)

Init ==
    /\ pc = "idle"
    /\ runs = 0
    /\ exitStatus = -1
    /\ config_str = NotFetched
    /\ current_config = <<>>
    /\ warned = FALSE
    /\ git_token = ""
    /\ original_remote = <<>>
    /\ workFile = <<>>
    /\ indexFile = <<>>
    /\ headFile = <<>>
    /\ remoteFile = <<>>
    /\ ahead = FALSE
    /\ behind = FALSE
    /\ gitConfig \in {[user_email |-> "", user_name |-> "", remote_origin_url |-> o] :
                        o \in Origins}
    /\ statusOut = <<>>
    /\ commitMsg = <<>>
    /\ steps = <<>>
    /\ failedStep = ""
    /\ logged = <<>>
    /\ raised = <<>>
    /\ errPrinted = <<>>
    /\ prevExit = -1
    /\ prevConfigStr = NotFetched
    /\ extSinceEnd = FALSE
    /\ extSincePrev = FALSE
    /\ respA = NotFetched
    /\ respB = NotFetched
    /\ outA = <<>>
    /\ outB = <<>>
    /\ phase = "in"

gitVars == <<workFile, indexFile, headFile, remoteFile, ahead, behind>>
logVars == <<logged, raised, errPrinted>>
fetchVars == <<config_str, current_config, warned>>
prevVars == <<prevExit, prevConfigStr, extSinceEnd, extSincePrev>>

\* an exception leaves main(): the process ends with a non-zero status
Abort ==
    /\ pc' = "done"
    /\ exitStatus' = 1

\* control continues at `next`; returning from main() ends the process with 0
Goto(next) ==
    /\ pc' = next
    /\ exitStatus' = IF next = "done" THEN 0 ELSE exitStatus

\* run_git_cmd(cmd, cwd, safe_cmd): what it prints and whether it raises
RunGitCmd(step, cmd, safe_cmd, rc, stderr, next) ==
    /\ steps' = Append(steps, step)
    /\ logged' = Shown(cmd, safe_cmd)
    /\ failedStep' = IF rc # 0 /\ failedStep = "" THEN step ELSE failedStep
    /\ IF Failed(rc)
       THEN /\ errPrinted' = stderr
            /\ raised' = Shown(cmd, safe_cmd)
            /\ Abort
       ELSE /\ UNCHANGED <<errPrinted, raised>>
            /\ Goto(next)

-----------------------------------------------------------------------------
(* One run of backup_genie_config.main *)

\* the job starts the script in the working copy
StartRun ==
    /\ pc \in {"idle", "done"}
    /\ phase = "in"
    /\ runs < MaxRuns
    /\ runs' = runs + 1
    /\ pc' = "fetch"
    /\ exitStatus' = -1
    /\ prevExit' = exitStatus
    /\ prevConfigStr' = config_str
    /\ extSincePrev' = extSinceEnd
    /\ extSinceEnd' = FALSE
    /\ config_str' = NotFetched
    /\ current_config' = <<>>
    /\ warned' = FALSE
    /\ git_token' = ""
    /\ original_remote' = <<>>
    /\ statusOut' = <<>>
    /\ commitMsg' = <<>>
    /\ steps' = <<>>
    /\ failedStep' = ""
    /\ logged' = <<>>
    /\ raised' = <<>>
    /\ errPrinted' = <<>>
    /\ UNCHANGED <<gitVars, gitConfig, serVars>>

\* w.api_client.do(...) and the handling of serialized_space
FetchConfig ==
    /\ pc = "fetch"
    /\ steps' = Append(steps, "fetch")
    /\ \E apiOk \in BOOLEAN, resp \in Responses :
         IF ~apiOk
         THEN /\ Abort
              /\ failedStep' = "fetch"
              /\ UNCHANGED fetchVars
         ELSE /\ config_str' = resp
              /\ IF ParseRaises(resp)
                 THEN /\ Abort
                      /\ failedStep' = "fetch"
                      /\ UNCHANGED <<current_config, warned>>
                 ELSE /\ warned' = NoConfig(resp)
                      /\ current_config' = ParsedConfig(resp)
                      /\ Goto("write")
                      /\ failedStep' = failedStep
    /\ UNCHANGED <<runs, git_token, original_remote, gitVars, gitConfig, statusOut,
                   commitMsg, logVars, prevVars, serVars>>

\* json.dump(current_config, f, indent=2, sort_keys=True) into the working copy
WriteSnapshot ==
    /\ pc = "write"
    /\ steps' = Append(steps, "write")
    /\ workFile' = Dump(current_config)
    /\ Goto("secret")
    /\ failedStep' = failedStep
    /\ UNCHANGED <<runs, fetchVars, git_token, original_remote, indexFile, headFile,
                   remoteFile, ahead, behind, gitConfig, statusOut, commitMsg,
                   logVars, prevVars, serVars>>

\* dbutils.secrets.get(scope, key)
GetSecret ==
    /\ pc = "secret"
    /\ steps' = Append(steps, "secret")
    /\ \E ok \in BOOLEAN :
         IF ok
         THEN git_token' = SECRET_VALUE /\ Goto("remote") /\ failedStep' = failedStep
         ELSE git_token' = git_token /\ Abort /\ failedStep' = "secret"
    /\ UNCHANGED <<runs, fetchVars, original_remote, gitVars, gitConfig, statusOut,
                   commitMsg, logVars, prevVars, serVars>>

\* git config --get remote.origin.url
GetRemote ==
    /\ pc = "remote"
    /\ steps' = Append(steps, "remote")
    /\ original_remote' = gitConfig.remote_origin_url
    /\ IF gitConfig.remote_origin_url = <<>>
       THEN Abort /\ failedStep' = "remote"
       ELSE Goto("config_email") /\ failedStep' = failedStep
    /\ UNCHANGED <<runs, fetchVars, git_token, gitVars, gitConfig, statusOut,
                   commitMsg, logVars, prevVars, serVars>>

ConfigEmail ==
    /\ pc = "config_email"
    /\ \E rc \in ReturnCodes, err \in LocalStderr :
         /\ RunGitCmd("config_email", CmdConfigEmail, None, rc, err, "config_name")
         /\ gitConfig' = IF rc = 0 THEN [gitConfig EXCEPT !.user_email = GIT_EMAIL]
                         ELSE gitConfig
    /\ UNCHANGED <<runs, fetchVars, git_token, original_remote, gitVars, statusOut,
                   commitMsg, prevVars, serVars>>

ConfigName ==
    /\ pc = "config_name"
    /\ \E rc \in ReturnCodes, err \in LocalStderr :
         /\ RunGitCmd("config_name", CmdConfigName, None, rc, err, "set_url")
         /\ gitConfig' = IF rc = 0 THEN [gitConfig EXCEPT !.user_name = GIT_USERNAME]
                         ELSE gitConfig
    /\ UNCHANGED <<runs, fetchVars, git_token, original_remote, gitVars, statusOut,
                   commitMsg, prevVars, serVars>>

\* git remote set-url origin {authenticated_remote}, logged as safe_remote_log
SetUrl ==
    /\ pc = "set_url"
    /\ LET repo_part == RepoPart(original_remote)
           authenticated_remote == AuthenticatedRemote(GIT_USERNAME, git_token, repo_part)
           safe_remote_log == SafeRemoteLog(GIT_USERNAME, repo_part)
       IN \E rc \in ReturnCodes, err \in LocalStderr :
            /\ RunGitCmd("set_url", CmdSetUrl(authenticated_remote),
                         CmdSetUrl(safe_remote_log), rc, err, "pull")
            /\ gitConfig' = IF rc = 0
                            THEN [gitConfig EXCEPT !.remote_origin_url = authenticated_remote]
                            ELSE gitConfig
    /\ UNCHANGED <<runs, fetchVars, git_token, original_remote, gitVars, statusOut,
                   commitMsg, prevVars, serVars>>

\* git pull origin main
Pull ==
    /\ pc = "pull"
    /\ \E rc \in ReturnCodes, err \in StderrTexts(gitConfig.remote_origin_url) :
         /\ PullMustFail(headFile, indexFile, workFile, remoteFile, ahead, behind) => rc # 0
         /\ RunGitCmd("pull", CmdPull, None, rc, err, "status")
         /\ IF rc = 0
            THEN /\ behind' = FALSE
                 /\ IF PullUpdates(headFile, remoteFile, ahead, behind)
                    THEN /\ headFile' = remoteFile
                         /\ indexFile' = remoteFile
                         /\ workFile' = remoteFile
                    ELSE UNCHANGED <<headFile, indexFile, workFile>>
            ELSE UNCHANGED <<behind, headFile, indexFile, workFile>>
    /\ UNCHANGED <<runs, fetchVars, git_token, original_remote, remoteFile, ahead,
                   gitConfig, statusOut, commitMsg, prevVars, serVars>>

\* git status --porcelain, then the branch on its output
Status ==
    /\ pc = "status"
    /\ \E rc \in ReturnCodes, err \in LocalStderr :
         LET out == StatusPorcelain(headFile, indexFile, workFile)
         IN /\ RunGitCmd("status", CmdStatus, None, rc, err,
                         IF HasChanges(out) THEN "add" ELSE "done")
            /\ statusOut' = IF rc = 0 THEN out ELSE statusOut
    /\ UNCHANGED <<runs, fetchVars, git_token, original_remote, gitVars, gitConfig,
                   commitMsg, prevVars, serVars>>

\* git add .
Add ==
    /\ pc = "add"
    /\ \E rc \in ReturnCodes, err \in LocalStderr :
         /\ RunGitCmd("add", CmdAdd, None, rc, err, "commit")
         /\ indexFile' = IF rc = 0 THEN workFile ELSE indexFile
    /\ UNCHANGED <<runs, fetchVars, git_token, original_remote, workFile, headFile,
                   remoteFile, ahead, behind, gitConfig, statusOut, commitMsg,
                   prevVars, serVars>>

\* git commit -m '...': fails when nothing is staged
Commit ==
    /\ pc = "commit"
    /\ \E rc \in ReturnCodes, err \in LocalStderr :
         /\ indexFile = headFile => rc # 0
         /\ RunGitCmd("commit", CmdCommit, None, rc, err, "push")
         /\ IF rc = 0
            THEN /\ headFile' = indexFile
                 /\ ahead' = TRUE
                 /\ commitMsg' = CommitMessage
            ELSE UNCHANGED <<headFile, ahead, commitMsg>>
    /\ UNCHANGED <<runs, fetchVars, git_token, original_remote, workFile, indexFile,
                   remoteFile, behind, gitConfig, statusOut, prevVars, serVars>>

\* git push origin main: rejected when origin/main has commits this clone lacks
Push ==
    /\ pc = "push"
    /\ \E rc \in ReturnCodes, err \in StderrTexts(gitConfig.remote_origin_url) :
         /\ behind => rc # 0
         /\ RunGitCmd("push", CmdPush, None, rc, err, "done")
         /\ IF rc = 0
            THEN remoteFile' = headFile /\ ahead' = FALSE
            ELSE UNCHANGED <<remoteFile, ahead>>
    /\ UNCHANGED <<runs, fetchVars, git_token, original_remote, workFile, indexFile,
                   headFile, behind, gitConfig, statusOut, commitMsg, prevVars, serVars>>

\* between runs, someone else pushes to origin/main (the commits the pull is
\* for): the push changes the snapshot, or only other files
ExternalPush ==
    /\ pc \in {"idle", "done"}
    /\ phase = "in"
    /\ runs < MaxRuns
    /\ \E c \in SnapshotContents \cup {remoteFile} : remoteFile' = c
    /\ behind' = TRUE
    /\ extSinceEnd' = TRUE
    /\ UNCHANGED <<pc, runs, exitStatus, fetchVars, git_token, original_remote,
                   workFile, indexFile, headFile, ahead, gitConfig, statusOut,
                   commitMsg, steps, failedStep, logVars, prevExit, prevConfigStr,
                   extSincePrev, serVars>>

-----------------------------------------------------------------------------
(* The configuration handling of each script, applied to two responses in two
   invocations.  A behaviour follows one script: these steps start from the
   initial state only. *)

\* backup_genie_config.py: serialized_space -> current_config -> snapshot file
BackupWriter ==
    /\ pc = "idle" /\ phase = "in"
    /\ \E ra \in WriterInputs, rb \in WriterInputs :
         /\ respA' = ra
         /\ respB' = rb
         /\ outA' = Dump(ParsedConfig(ra))
         /\ outB' = Dump(ParsedConfig(rb))
    /\ phase' = "backup"
    /\ UNCHANGED runVars

\* setup_and_backup_genie.py step 6: serialized_space -> backup_config -> file
SetupWriter ==
    /\ pc = "idle" /\ phase = "in"
    /\ \E ra \in WriterInputs, rb \in WriterInputs :
         /\ respA' = ra
         /\ respB' = rb
         /\ outA' = Dump(BackupConfig(ra))
         /\ outB' = Dump(BackupConfig(rb))
    /\ phase' = "setup"
    /\ UNCHANGED runVars

\* verify_genie_fetch.py: serialized_space -> config
VerifyFetch ==
    /\ pc = "idle" /\ phase = "in"
    /\ \E ra \in WriterInputs, rb \in WriterInputs :
         /\ respA' = ra
         /\ respB' = rb
         /\ outA' = VerifyConfig(ra)
         /\ outB' = VerifyConfig(rb)
    /\ phase' = "verify"
    /\ UNCHANGED runVars

Next ==
    \/ BackupWriter
    \/ SetupWriter
    \/ VerifyFetch
    \/ StartRun
    \/ FetchConfig
    \/ WriteSnapshot
    \/ GetSecret
    \/ GetRemote
    \/ ConfigEmail
    \/ ConfigName
    \/ SetUrl
    \/ Pull
    \/ Status
    \/ Add
    \/ Commit
    \/ Push
    \/ ExternalPush

Spec == Init /\ [][Next]_vars

-----------------------------------------------------------------------------
(* Properties *)

Executed(step) == Contains(steps, step)
Succeeded(step) == Executed(step) /\ failedStep # step
StepBefore(x, y) ==
    \E i \in 1..Len(steps), j \in 1..Len(steps) : i < j /\ steps[i] = x /\ steps[j] = y
RunEndedOk == pc = "done" /\ exitStatus = 0
\* the previous run in this working copy succeeded and nobody else pushed
\* to origin/main since it ended
AfterSuccessfulRun == runs >= 2 /\ prevExit = 0 /\ ~extSincePrev
PrevSnapshot == Dump(ParsedConfig(prevConfigStr))

\* C1: every command text that run_git_cmd logs or puts into the raised
\* "Git command failed" message is free of the secret token, in every run,
\* also in a run that finds remote.origin.url already rewritten; the mask is
\* not the token.
C1_CredentialRedaction ==
    /\ ~Contains(logged, SECRET_VALUE)
    /\ ~Contains(raised, SECRET_VALUE)
    /\ MASK # SECRET_VALUE

\* C2: whenever a run ends with status zero, origin/main holds the canonical
\* serialization of the configuration fetched in that run, whatever earlier
\* runs did in the working copy.
C2_PublisherContract ==
    (RunEndedOk /\ ~extSinceEnd) => remoteFile = Dump(current_config)

\* C3: at the end of every run, successful or aborted, the working copy's
\* git configuration (remote.origin.url) does not contain the token.
C3_CredentialNotPersisted ==
    pc = "done" => ~Contains(gitConfig.remote_origin_url, SECRET_VALUE)

\* C4: a run that follows a successful run, fetches the same serialized
\* configuration and completes all its steps finds an empty status, creates
\* no commit, pushes nothing and exits with status zero.
C4_IdempotentNoOp ==
    (/\ pc = "done"
     /\ AfterSuccessfulRun
     /\ failedStep = ""
     /\ config_str = prevConfigStr)
    => (/\ statusOut = <<>>
        /\ ~Executed("commit")
        /\ ~Executed("push")
        /\ exitStatus = 0)

\* C5: a run that follows a successful run, fetches a configuration whose
\* canonical serialization differs from the previous one and completes all
\* its steps creates one commit whose message names the space, pushes it,
\* and leaves the snapshot file equal to the canonical serialization of the
\* configuration it fetched.
C5_ChangeDrivesCommit ==
    (/\ pc = "done"
     /\ AfterSuccessfulRun
     /\ failedStep = ""
     /\ PrevSnapshot # Dump(current_config))
    => (/\ Succeeded("commit")
        /\ Contains(commitMsg, SPACE_ID)
        /\ Succeeded("push")
        /\ workFile = Dump(current_config))

\* the file json.dump writes for the empty document
EmptyObject == << <<0, "{}", 0, "">> >>

\* C6: when the response has no serialized_space field, or an empty one, the
\* fetch step does not fail: it prints the warning, takes the configuration
\* to be the empty document and writes a snapshot holding {}; the run goes on
\* and ends with status zero when no later step fails.  The other two scripts
\* apply the same rule to the field.
C6_MissingFieldTolerance ==
    /\ config_str.kind \in {"missing", "empty"} =>
         /\ failedStep # "fetch"
         /\ warned
         /\ current_config = <<>>
         /\ pc = "write" \/ Executed("write")
         /\ pc = "secret" => workFile = EmptyObject
         /\ (pc = "done" /\ failedStep = "") => exitStatus = 0
    /\ (phase \in {"backup", "setup"} /\ respA.kind \in {"missing", "empty"}) =>
         outA = EmptyObject
    /\ (phase = "verify" /\ respA.kind \in {"missing", "empty"}) => outA = <<>>

C6_Witness ==
    /\ RunEndedOk
    /\ config_str = EmptyStr
    /\ warned
    /\ Succeeded("push")
    /\ remoteFile = EmptyObject

\* C7: the first failing step of a run (fetch, secret retrieval, any git
\* command) is the last step the run executes and the run ends with a
\* non-zero status; no step is executed twice in a run; a run ends with
\* status zero only if no step failed.
C7_FailFast ==
    /\ failedStep # "" =>
         /\ pc = "done"
         /\ exitStatus = 1
         /\ steps[Len(steps)] = failedStep
    /\ \A i \in 1..Len(steps), j \in 1..Len(steps) : i # j => steps[i] # steps[j]
    /\ exitStatus = 0 => (pc = "done" /\ failedStep = "")

C7_Witness ==
    /\ pc = "done"
    /\ exitStatus = 1
    /\ failedStep = "pull"
    /\ steps = <<"fetch", "write", "secret", "remote", "config_email",
                 "config_name", "set_url", "pull">>

\* the lines between the braces are indented by two and their keys ascend
Canonical(out) ==
    /\ \A i \in 2..(Len(out) - 1) : out[i][1] = 2
    /\ \A i \in 2..(Len(out) - 2) : KeyRank(out[i][2]) < KeyRank(out[i + 1][2])

\* C8: the snapshot content depends on the parsed configuration only: two
\* responses whose parsed configurations are equal as dicts, whatever the
\* order of their keys, give identical snapshot content, with keys sorted
\* and two-space indentation.
C8_SnapshotDeterminism ==
    /\ (phase = "backup" /\ DictEq(ParsedConfig(respA), ParsedConfig(respB))) =>
         outA = outB
    /\ (phase = "setup" /\ DictEq(BackupConfig(respA), BackupConfig(respB))) =>
         outA = outB
    /\ phase \in {"backup", "setup"} => (Canonical(outA) /\ Canonical(outB))

C8_Witness ==
    /\ phase = "backup"
    /\ respA = Json(DocA)
    /\ respB = Json(DocA2)
    /\ Loads(respA.doc) # Loads(respB.doc)
    /\ outA = outB
    /\ Len(outA) = 4

\* C9: in every run the pull of the tracked branch completes before the
\* snapshot file is written into the working copy, and the commit identity
\* is configured before a commit is created.
C9_StepOrdering ==
    /\ Executed("write") => StepBefore("pull", "write")
    /\ Executed("commit") =>
         (StepBefore("config_email", "commit") /\ StepBefore("config_name", "commit"))

\* C10: add, commit and push run only after a status query that reported at
\* least one entry, in that order, each after the previous one succeeded; a
\* status query that reports nothing ends the run with status zero and no
\* add, commit or push.
C10_DetectChangeGate ==
    /\ \A s \in {"add", "commit", "push"} :
         Executed(s) =>
            (Succeeded("status") /\ statusOut # <<>> /\ StepBefore("status", s))
    /\ Executed("commit") => (Succeeded("add") /\ StepBefore("add", "commit"))
    /\ Executed("push") => (Succeeded("commit") /\ StepBefore("commit", "push"))
    /\ (Succeeded("status") /\ statusOut = <<>>) =>
         /\ ~Executed("add") /\ ~Executed("commit") /\ ~Executed("push")
         /\ pc = "done"
         /\ exitStatus = 0

C10_Witness ==
    /\ RunEndedOk
    /\ prevExit = 0
    /\ Succeeded("status")
    /\ statusOut = <<>>
    /\ ~Executed("add")
    /\ remoteFile = workFile
    /\ remoteFile # <<>>

GitSteps == {"config_email", "config_name", "set_url", "pull", "status", "add",
             "commit", "push"}

\* C11: when a git command exits non-zero the run shows the failing command
\* and the command's standard error, and none of the text it prints or
\* raises for that failure contains the token, whatever the command wrote to
\* its standard error.
C11_RedactedErrorOutput ==
    (pc = "done" /\ failedStep \in GitSteps) =>
        /\ raised # <<>>
        /\ errPrinted # <<>>
        /\ ~Contains(errPrinted, SECRET_VALUE)
        /\ ~Contains(raised, SECRET_VALUE)
        /\ ~Contains(logged, SECRET_VALUE)

\* the URL the first run stores for an origin on github.com, in https form
\* or in git@host:org/repo form
RewrittenOnce ==
    <<"https://", GIT_USERNAME, ":", SECRET_VALUE, "@",
      "github.com", "/", "ryancicak", "/", "genie_automation.git">>

\* C12: for an origin in https form or in git@host:org/repo form, after any
\* number of runs that rewrote remote.origin.url, the URL is
\* https://<username>:<token>@<host>/<org>/<repo>, as after the first run:
\* one credential segment, then the host and path of the original origin.
C12_RewriteIdempotent ==
    LET url == gitConfig.remote_origin_url
    IN (Contains(url, "github.com") /\ Contains(url, SECRET_VALUE)) =>
          url = RewrittenOnce

====
